---- MODULE Spec2Model ----
(***************************************************************************)
(* flexdev: directory diffing (lib/flexdev), the build record and its      *)
(* lifecycle (server/build.go), the build slot's request handlers          *)
(* (server/http.go) and the client's upload loop (cmd/flexdev).            *)
(*                                                                         *)
(* A path is a sequence of one-character strings; Code gives the byte the  *)
(* Go string comparison orders them by ("." < "/" < letters).  A SHA1 is   *)
(* <<>> (the empty string of a directory entry) or <<c>> for content c.    *)
(***************************************************************************)
EXTENDS Integers, Sequences, FiniteSets, TLC

VARIABLES
    dpc, ours, want, add, remove,      \* one call of DirList.Diff
    disk, build, procs, last,          \* the server: packageDir, build slot
    nextID, ctree, sess,               \* clock for ids; the client's deploy
    fwd,                               \* requests proxyHandler is forwarding
    writer, readers,                   \* buildMu: held by a handler, by put-files
    ppc, nfiles, sent, ret,            \* doDeploy's upload loop (the producer)
    wg, sendErr, wk, hist              \* its WaitGroup, error and workers

vars == <<dpc, ours, want, add, remove, disk, build, procs, last,
          nextID, ctree, sess, fwd, writer, readers, ppc, nfiles, sent, ret, wg, sendErr,
          wk, hist>>

diffVars == <<dpc, ours, want, add, remove>>
srvVars  == <<disk, build, procs, last, nextID, ctree, sess>>
upVars   == <<ppc, nfiles, sent, ret, wg, sendErr, wk, hist>>
lockVars == <<writer, readers>>

----------------------------------------------------------------------------
(* Bounds *)

MaxHash    == 2     \* distinct file contents
MaxEntries == 3     \* entries of a snapshot handed to Diff
MaxBuilds  == 2     \* build records allocated in one run
MaxProcs   == 1     \* subprocesses spawned in one run
MaxSpawns  == 2     \* subprocesses spawned in one run of SpecProcs
MaxForwards == 1    \* requests being forwarded at one time
MaxPuts    == 2     \* put-file requests in progress at one time
MaxUploads == 3     \* files the upload loop enqueues
NumWorkers == 2     \* upload goroutines (15 in doDeploy)

----------------------------------------------------------------------------
(* Strings *)

Code(c) ==
    CASE c = "." -> 46
      [] c = "/" -> 47
      [] c = "a" -> 97
      [] c = "b" -> 98
      [] c = "o" -> 111
      [] c = "t" -> 116
      [] c = "u" -> 117

RECURSIVE StrLess(_, _)
StrLess(p, q) ==
    IF q = <<>> THEN FALSE
    ELSE IF p = <<>> THEN TRUE
    ELSE IF Code(Head(p)) # Code(Head(q)) THEN Code(Head(p)) < Code(Head(q))
    ELSE StrLess(Tail(p), Tail(q))

HasPrefix(s, prefix) ==
    /\ Len(prefix) <= Len(s)
    /\ SubSeq(s, 1, Len(prefix)) = prefix

----------------------------------------------------------------------------
(* lib/flexdev: DirEntry, DirList *)

NoSHA == <<>>
SHA1Of(c) == <<c>>

DirEntry(p, d, h) == [Path |-> p, IsDir |-> d, SHA1 |-> h]

InDir_NoDirCheck(e, dir) == HasPrefix(e.Path \o <<"/">>, dir.Path)

InDir(e, dir) == dir.IsDir /\ HasPrefix(e.Path \o <<"/">>, dir.Path)

Less(x, y) == StrLess(x.Path, y.Path)

RECURSIVE Insert(_, _)
Insert(e, s) ==
    IF s = <<>> THEN <<e>>
    ELSE IF Less(e, Head(s)) THEN <<e>> \o s
    ELSE <<Head(s)>> \o Insert(e, Tail(s))

RECURSIVE Sort(_)
Sort(s) == IF s = <<>> THEN <<>> ELSE Insert(Head(s), Sort(Tail(s)))

appendEntry(l, e) ==
    IF Len(l) = 0 THEN Append(l, e)
    ELSE IF InDir(e, l[Len(l)]) THEN l
    ELSE Append(l, e)

RECURSIVE DiffLoop(_, _, _, _)
DiffLoop(o, w, a, r) ==
    IF o # <<>> /\ w # <<>> THEN
        IF Head(o).Path = Head(w).Path THEN
            IF Head(o).IsDir # Head(w).IsDir THEN
                DiffLoop(Tail(o), Tail(w), appendEntry(a, Head(w)),
                         appendEntry(r, Head(o)))
            ELSE IF Head(o).SHA1 = Head(w).SHA1 THEN
                DiffLoop(Tail(o), Tail(w), a, r)
            ELSE
                DiffLoop(Tail(o), Tail(w), appendEntry(a, Head(w)), r)
        ELSE IF StrLess(Head(w).Path, Head(o).Path) THEN
            DiffLoop(o, Tail(w), appendEntry(a, Head(w)), r)
        ELSE
            DiffLoop(Tail(o), w, a, appendEntry(r, Head(o)))
    ELSE IF w # <<>> THEN
        DiffLoop(o, Tail(w), appendEntry(a, Head(w)), r)
    ELSE IF o # <<>> THEN
        DiffLoop(Tail(o), w, a, appendEntry(r, Head(o)))
    ELSE [add |-> a, remove |-> r]

Diff_OursUnsorted(o, w) == DiffLoop(o, Sort(w), <<>>, <<>>)

Diff(o, w) == DiffLoop(Sort(o), Sort(w), <<>>, <<>>)

----------------------------------------------------------------------------
(* Snapshots: what a walk of a tree can list (unique paths, every entry's  *)
(* parent directory listed as a directory).                                *)

Range(s) == {s[i] : i \in 1..Len(s)}

Contents == 1..MaxHash

DiffPaths ==
    { <<"a">>, <<"a", ".", "b">>, <<"a", "/", "a">>, <<"a", "b">> }

\* what a path holds: -1 nothing, 0 a directory, c >= 1 a file of content c
Kinds == (-1)..MaxHash

EntryOf(p, k) ==
    IF k = 0 THEN DirEntry(p, TRUE, NoSHA) ELSE DirEntry(p, FALSE, SHA1Of(k))

\* the parent directory's path, <<>> for a top-level name
RECURSIVE Dir(_)
Dir(p) ==
    IF p = <<>> THEN <<>>
    ELSE IF p[Len(p)] = "/" THEN SubSeq(p, 1, Len(p) - 1)
    ELSE Dir(SubSeq(p, 1, Len(p) - 1))

PathsOf(S) == {e.Path : e \in S}

WellFormed(S) ==
    /\ \A e, f \in S : e.Path = f.Path => e = f
    /\ \A e \in S : Dir(e.Path) # <<>> =>
          \E d \in S : d.Path = Dir(e.Path) /\ d.IsDir

TreesOver(P) ==
    { {EntryOf(p, f[p]) : p \in {q \in P : f[q] # -1}} : f \in [P -> Kinds] }

Snapshots ==
    {S \in TreesOver(DiffPaths) : WellFormed(S) /\ Cardinality(S) <= MaxEntries}

\* the listing in ascending path order
RECURSIVE Listing(_)
Listing(S) ==
    IF S = {} THEN <<>>
    ELSE LET e == CHOOSE x \in S : \A y \in S : y = x \/ Less(x, y)
         IN <<e>> \o Listing(S \ {e})

Reverse(s) == [i \in 1..Len(s) |-> s[Len(s) + 1 - i]]
Rotate(s, k) == [i \in 1..Len(s) |-> s[((i - 1 + k) % Len(s)) + 1]]

\* input orders of a snapshot: the rotations of the listing and of its reverse
Orders(S) ==
    IF S = {} THEN {<<>>}
    ELSE LET l == Listing(S)
         IN {Rotate(l, k) : k \in 0..(Cardinality(S) - 1)}
            \cup {Rotate(Reverse(l), k) : k \in 0..(Cardinality(S) - 1)}

DiffInputs == UNION {Orders(S) : S \in Snapshots}

----------------------------------------------------------------------------
(* server/build.go: the build record and its methods.                      *)
(* A pointer is <<>> (nil) or <<x>>.  procs[pid] is the fate of the        *)
(* subprocess pid; cmd = <<0>> is a command whose Process is nil.  output   *)
(* is the set of kinds of text the record's buffer holds.                  *)

\* what the last call did: its error, whether it sent a kill, and of its
\* response the need_files, the message and the log text the message quotes
Event(op, err, kill, need) ==
    [op |-> op, err |-> err, kill |-> kill, need |-> need,
     msg |-> "", log |-> {}]
NoEvent == Event("none", "none", FALSE, <<>>)

Artifact == <<"a", ".", "o", "u", "t">>

NewBuild(id, files) ==
    [ID |-> id, State |-> "created", clientFiles |-> files,
     cmd |-> <<>>, addr |-> "", output |-> {}]

\* go build -o a.out in b.dir, its stdout and stderr appended to b.output
GoBuild(b, compiles) ==
    IF ~compiles
    THEN [b |-> [b EXCEPT !.State = "building",
                          !.output = @ \cup {"compile"}],
          err |-> "compile"]
    ELSE [b |-> [b EXCEPT !.State = "built"], err |-> "none"]

\* the a.out a successful compile leaves in the working directory
WriteArtifact(d) ==
    {e \in d : e.Path # Artifact} \cup {DirEntry(Artifact, FALSE, SHA1Of(1))}

Start_RunningBeforeLaunch(b, ps, listens, launches) ==
    IF ~listens THEN [b |-> b, procs |-> ps, err |-> "listen"]
    ELSE IF ~launches
    THEN [b |-> [b EXCEPT !.addr = ":port", !.cmd = <<0>>,
                          !.State = "running"],
          procs |-> ps, err |-> "launch"]
    ELSE [b |-> [b EXCEPT !.addr = ":port", !.cmd = <<Len(ps) + 1>>,
                          !.State = "running"],
          procs |-> Append(ps, "alive"), err |-> "none"]

\* net.Listen on port 0, then exec of ./a.out
Start(b, ps, listens, launches) ==
    IF ~listens THEN [b |-> b, procs |-> ps, err |-> "listen"]
    ELSE IF ~launches
    THEN [b |-> [b EXCEPT !.addr = ":port", !.cmd = <<0>>],
          procs |-> ps, err |-> "launch"]
    ELSE [b |-> [b EXCEPT !.addr = ":port", !.cmd = <<Len(ps) + 1>>,
                          !.State = "running"],
          procs |-> Append(ps, "alive"), err |-> "none"]

Stop_NoStateCheck(b, ps, killed) ==
    IF b.cmd = <<>> \/ b.cmd = <<0>>
    THEN [b |-> [b EXCEPT !.State = "stopped"], procs |-> ps,
          err |-> "no process", kill |-> FALSE]
    ELSE IF ~killed
    THEN [b |-> b, procs |-> ps, err |-> "kill", kill |-> TRUE]
    ELSE [b |-> [b EXCEPT !.State = "stopped"],
          procs |-> [ps EXCEPT ![b.cmd[1]] = "killed"],
          err |-> "none", kill |-> TRUE]

Stop(b, ps, killed) ==
    IF b.State # "running"
    THEN [b |-> b, procs |-> ps, err |-> "not running", kill |-> FALSE]
    ELSE IF b.cmd = <<0>>
    THEN [b |-> [b EXCEPT !.State = "stopped"], procs |-> ps,
          err |-> "no process", kill |-> FALSE]
    ELSE IF ~killed
    THEN [b |-> b, procs |-> ps, err |-> "kill", kill |-> TRUE]
    ELSE [b |-> [b EXCEPT !.State = "stopped"],
          procs |-> [ps EXCEPT ![b.cmd[1]] = "killed"],
          err |-> "none", kill |-> TRUE]

\* filepath.Walk visits names in lexical order, a directory before its content
WalkCode(c) == IF c = "/" THEN 0 ELSE Code(c)

RECURSIVE WalkLess(_, _)
WalkLess(p, q) ==
    IF q = <<>> THEN FALSE
    ELSE IF p = <<>> THEN TRUE
    ELSE IF WalkCode(Head(p)) # WalkCode(Head(q))
         THEN WalkCode(Head(p)) < WalkCode(Head(q))
    ELSE WalkLess(Tail(p), Tail(q))

RECURSIVE Walk(_)
Walk(S) ==
    IF S = {} THEN <<>>
    ELSE LET e == CHOOSE x \in S : \A y \in S : y = x \/ WalkLess(x.Path, y.Path)
         IN <<e>> \o Walk(S \ {e})

Root == DirEntry(<<".">>, TRUE, NoSHA)

ListDir(tree) == <<Root>> \o Walk(tree)

PathList(l) == [i \in 1..Len(l) |-> l[i].Path]

filesNeeded(b, d) ==
    LET df == Diff(ListDir(d), b.clientFiles)
    IN [need |-> PathList(df.add), remove |-> PathList(df.remove)]

----------------------------------------------------------------------------
(* The file system under packageDir *)

Beneath(p, d) == HasPrefix(p, d \o <<"/">>)

RemoveAll(d, paths) ==
    {e \in d : \A i \in 1..Len(paths) :
        /\ paths[i] # <<".">>
        /\ e.Path # paths[i]
        /\ ~Beneath(e.Path, paths[i])}

Ancestors(p) == {SubSeq(p, 1, i - 1) : i \in {j \in 1..Len(p) : p[j] = "/"}}

IsFile(d, p) == \E e \in d : e.Path = p /\ ~e.IsDir
IsDirectory(d, p) == \E e \in d : e.Path = p /\ e.IsDir

\* os.MkdirAll(filepath.Dir(dest)): creates the missing ancestors from the
\* top and fails at the first ancestor that is a file
MkdirAll(d, dest) ==
    LET blocked == {a \in Ancestors(dest) : IsFile(d, a)}
        made == {a \in Ancestors(dest) :
                    /\ ~IsDirectory(d, a)
                    /\ \A x \in blocked : Len(a) < Len(x)}
    IN [disk |-> d \cup {DirEntry(a, TRUE, NoSHA) : a \in made},
        err |-> blocked # {}]

WriteFile(d, dest, c) ==
    IF IsDirectory(d, dest) THEN [disk |-> d, err |-> TRUE]
    ELSE [disk |-> {e \in d : e.Path # dest}
                      \cup {DirEntry(dest, FALSE, SHA1Of(c))},
          err |-> FALSE]

----------------------------------------------------------------------------
(* The client's deploy (cmd/flexdev): which files it uploads for a         *)
(* create response                                                         *)

ContentOf(tree, p) == (CHOOSE e \in tree : e.Path = p).SHA1[1]

\* every file of the local tree named by an entry of need_files or found by
\* walking a directory entry of need_files
NeededUploads(need, tree) ==
    {e.Path : e \in {x \in tree :
        /\ ~x.IsDir
        /\ \E i \in 1..Len(need) :
              \/ need[i] = x.Path
              \/ IsDirectory(tree, need[i]) /\ Beneath(x.Path, need[i])
              \/ need[i] = <<".">>}}

----------------------------------------------------------------------------
(* server/http.go: the handlers, each run under buildMu *)

SrvPaths == { <<"a">>, <<"a", "/", "a">>, <<"a", "b">> }

SrvTrees == {S \in TreesOver(SrvPaths) : WellFormed(S)}

Bodies == {"ok", "undecodable", "noconfig", "nofiles", "badyaml"}
Faults == {"none", "mkdir", "list", "remove"}

\* the request body, whether Process.Kill succeeds, and the file-system call
\* that fails; a failed kill ends the handler before the body is read and a
\* rejected body ends it before the file system is touched
CreateInputs ==
    {i \in [body : Bodies, killed : BOOLEAN, fault : Faults] :
        /\ ~i.killed => (i.body = "ok" /\ i.fault = "none")
        /\ i.fault # "none" => i.body \in {"ok", "badyaml"}}

Live == build # <<>>
Running == Live /\ build[1].State = "running"

\* buildMu.Lock() is granted when no reader holds the lock; the handlers
\* other than proxyHandler are steps, so they hold it at no state
WLock_Ignored == TRUE

WLock == fwd = 0 /\ readers = {} /\ writer = ""

\* handler h runs with buildMu held: taken in this step, or taken before
Locked(h) == WLock \/ writer = h

RLock_Ignored == TRUE

\* buildMu.RLock() is granted when no writer holds the lock
RLock == writer = ""

\* nobody holds buildMu through put-file or for writing
LockFree == writer = "" /\ readers = {}

createOutcome_IgnoresStopError(body, killed, fault) ==
    LET st == IF Running THEN Stop(build[1], procs, killed)
              ELSE [b |-> <<>>, procs |-> procs, err |-> "none", kill |-> FALSE]
        b0 == IF Running THEN <<st.b>> ELSE build
        out(err) == [build |-> b0, procs |-> st.procs, disk |-> disk,
                     nextID |-> nextID,
                     last |-> Event("create", err, st.kill, <<>>)]
        nb == NewBuild(nextID, ListDir(ctree))
        fn == filesNeeded(nb, disk)
        made(err) == [out(err) EXCEPT !.build = <<nb>>, !.nextID = nextID + 1]
        done(err) == [made(err) EXCEPT !.disk = RemoveAll(disk, fn.remove),
                                       !.last.need = fn.need]
    IN IF body = "undecodable" THEN out("decode")
       ELSE IF body = "noconfig" THEN out("missing config")
       ELSE IF body = "nofiles" THEN out("missing dir list")
       ELSE IF fault = "mkdir" THEN out("io")
       ELSE IF fault = "list" THEN made("list")
       ELSE IF fault = "remove" /\ fn.remove # <<>> THEN made("io")
       \* the yaml error is written and the handler carries on
       ELSE IF body = "badyaml" THEN done("yaml")
       ELSE done("none")

createOutcome(body, killed, fault) ==
    LET st == IF Running THEN Stop(build[1], procs, killed)
              ELSE [b |-> <<>>, procs |-> procs, err |-> "none", kill |-> FALSE]
        b0 == IF Running THEN <<st.b>> ELSE build
        out(err) == [build |-> b0, procs |-> st.procs, disk |-> disk,
                     nextID |-> nextID,
                     last |-> Event("create", err, st.kill, <<>>)]
        nb == NewBuild(nextID, ListDir(ctree))
        fn == filesNeeded(nb, disk)
        made(err) == [out(err) EXCEPT !.build = <<nb>>, !.nextID = nextID + 1]
        done(err) == [made(err) EXCEPT !.disk = RemoveAll(disk, fn.remove),
                                       !.last.need = fn.need]
    IN IF st.err # "none" THEN out("stop")
       ELSE IF body = "undecodable" THEN out("decode")
       ELSE IF body = "noconfig" THEN out("missing config")
       ELSE IF body = "nofiles" THEN out("missing dir list")
       ELSE IF fault = "mkdir" THEN out("io")
       ELSE IF fault = "list" THEN made("list")
       ELSE IF fault = "remove" /\ fn.remove # <<>> THEN made("io")
       \* the yaml error is written and the handler carries on
       ELSE IF body = "badyaml" THEN done("yaml")
       ELSE done("none")

createStep(i) ==
    LET o == createOutcome(i.body, i.killed, i.fault)
    IN /\ Locked("create")
       /\ o.nextID <= MaxBuilds + 1
       /\ build' = o.build
       /\ procs' = o.procs
       /\ disk' = o.disk
       /\ nextID' = o.nextID
       /\ last' = o.last

createBuildHandler ==
    /\ \E i \in CreateInputs : createStep(i)
    /\ UNCHANGED <<ctree, sess, diffVars, upVars, fwd, lockVars>>

\* the filename form value: missing, a top-level file, a file in a directory
PutNames == {<<>>, <<"a">>, <<"a", "/", "a">>}
PutHashes == {NoSHA} \cup {SHA1Of(c) : c \in Contents}

PutRequests == [id : 0..MaxBuilds, dest : PutNames, hash : PutHashes, c : Contents]

\* put requests: complete ones, and ones with a single form value missing
\* from the request for content 1 at the first path
PutInputs ==
    {i \in PutRequests :
        \/ i.id # 0 /\ i.dest # <<>> /\ i.hash # NoSHA
        \/ /\ i.c = 1
           /\ i.dest \in {<<>>, <<"a">>}
           /\ i.hash \in {NoSHA, SHA1Of(1)}
           /\ Cardinality({f \in {"id", "dest", "hash"} :
                \/ f = "id" /\ i.id = 0
                \/ f = "dest" /\ i.dest = <<>>
                \/ f = "hash" /\ i.hash = NoSHA}) = 1}

SumOK_Always(c, hash) == TRUE

\* the hex SHA1 of the received bytes equals the sha1 form value
SumOK(c, hash) == SHA1Of(c) = hash

putOutcome_NoIDCheck(id, dest, hash, c) ==
    LET out(err, d) == [disk |-> d, last |-> Event("put", err, FALSE, <<>>)]
        mk == MkdirAll(disk, dest)
        wr == WriteFile(mk.disk, dest, c)
    IN IF id = 0 THEN out("missing id", disk)
       ELSE IF ~Live THEN out("panic", disk)
       ELSE IF dest = <<>> THEN out("missing filename", disk)
       ELSE IF hash = NoSHA THEN out("missing hash", disk)
       ELSE IF ~SumOK(c, hash) THEN out("sum", disk)
       ELSE IF mk.err THEN out("mkdir", mk.disk)
       ELSE IF wr.err THEN out("write", wr.disk)
       ELSE out("none", wr.disk)

putOutcome(id, dest, hash, c) ==
    LET out(err, d) == [disk |-> d, last |-> Event("put", err, FALSE, <<>>)]
        mk == MkdirAll(disk, dest)
        wr == WriteFile(mk.disk, dest, c)
    IN IF id = 0 THEN out("missing id", disk)
       ELSE IF ~Live THEN out("panic", disk)
       ELSE IF id # build[1].ID THEN out("id mismatch", disk)
       ELSE IF dest = <<>> THEN out("missing filename", disk)
       ELSE IF hash = NoSHA THEN out("missing hash", disk)
       ELSE IF ~SumOK(c, hash) THEN out("sum", disk)
       ELSE IF mk.err THEN out("mkdir", mk.disk)
       ELSE IF wr.err THEN out("write", wr.disk)
       ELSE out("none", wr.disk)

putStep(i) ==
    LET o == putOutcome(i.id, i.dest, i.hash, i.c)
    IN /\ RLock
       /\ disk' = o.disk
       /\ last' = o.last
       /\ UNCHANGED <<build, procs, nextID>>

putFileHandler ==
    /\ \E i \in PutInputs : putStep(i)
    /\ UNCHANGED <<ctree, sess, diffVars, upVars, fwd, lockVars>>

startOutcome_NoAbort(compiles, listens, launches) ==
    LET g == GoBuild(build[1], compiles)
        s == Start(g.b, procs, listens, launches)
    IN IF ~Live
       THEN [build |-> build, procs |-> procs, disk |-> disk,
             last |-> Event("start", "panic", FALSE, <<>>)]
       ELSE [build |-> <<s.b>>, procs |-> s.procs,
             disk |-> IF compiles THEN WriteArtifact(disk) ELSE disk,
             last |-> [Event("start", IF g.err # "none" THEN g.err ELSE s.err,
                             FALSE, <<>>)
                          EXCEPT !.msg = "log", !.log = g.b.output]]

startOutcome(compiles, listens, launches) ==
    LET g == GoBuild(build[1], compiles)
        s == Start(g.b, procs, listens, launches)
    IN IF ~Live
       THEN [build |-> build, procs |-> procs, disk |-> disk,
             last |-> Event("start", "panic", FALSE, <<>>)]
       ELSE IF g.err # "none"
       THEN [build |-> <<g.b>>, procs |-> procs, disk |-> disk,
             last |-> [Event("start", g.err, FALSE, <<>>)
                          EXCEPT !.msg = "log", !.log = g.b.output]]
       ELSE [build |-> <<s.b>>, procs |-> s.procs, disk |-> WriteArtifact(disk),
             last |-> [Event("start", s.err, FALSE, <<>>)
                          EXCEPT !.msg = IF s.err = "none"
                                         THEN "App is running." ELSE ""]]

\* startBuildHandler, in a run that spawns at most n subprocesses
startUpTo(n) ==
    /\ Locked("start")
    /\ \E compiles, listens, launches \in BOOLEAN :
         LET o == startOutcome(compiles, listens, launches)
         IN /\ Len(o.procs) <= n
            /\ build' = o.build
            /\ procs' = o.procs
            /\ disk' = o.disk
            /\ last' = o.last
    /\ UNCHANGED nextID

startStep == startUpTo(MaxProcs)

startBuildHandler ==
    /\ startStep
    /\ UNCHANGED <<ctree, sess, diffVars, upVars, fwd, lockVars>>

\* the message lists the id, the state, the address and the log
statusStep ==
    /\ Locked("status")
    /\ last' = IF ~Live
               THEN [Event("status", "none", FALSE, <<>>) EXCEPT !.msg = "build=nil"]
               ELSE [Event("status", "none", FALSE, <<>>)
                        EXCEPT !.msg = build[1].State, !.log = build[1].output]
    /\ UNCHANGED <<disk, build, procs, nextID>>

statusHandler ==
    /\ statusStep
    /\ UNCHANGED <<ctree, sess, diffVars, upVars, fwd, lockVars>>

\* the subprocess of some build exits on its own
ProcExit ==
    /\ \E pid \in 1..Len(procs) :
         /\ procs[pid] = "alive"
         /\ procs' = [procs EXCEPT ![pid] = "exited"]
    /\ last' = Event("exit", "none", FALSE, <<>>)
    /\ UNCHANGED <<disk, build, nextID, ctree, sess, diffVars, upVars, fwd, lockVars>>

\* proxyHandler up to the call of the reverse proxy: a 503 with the reason,
\* or the forwarding begins with the read lock held
proxyHandler ==
    /\ RLock
    /\ IF ~Live
       THEN /\ fwd' = fwd
            /\ last' = [Event("proxy", "unavailable", FALSE, <<>>)
                           EXCEPT !.msg = "No app to run."]
       ELSE IF build[1].State # "running"
       THEN /\ fwd' = fwd
            /\ last' = [Event("proxy", "unavailable", FALSE, <<>>)
                           EXCEPT !.msg = build[1].State,
                                  !.log = build[1].output]
       ELSE /\ fwd < MaxForwards
            /\ fwd' = fwd + 1
            /\ last' = Event("proxy", "none", FALSE, <<>>)
    /\ UNCHANGED <<disk, build, procs, nextID, ctree, sess, diffVars, upVars,
                   lockVars>>

\* the reverse proxy's ServeHTTP returns and the read lock is released
proxyDone ==
    /\ fwd > 0
    /\ fwd' = fwd - 1
    /\ last' = Event("proxied", "none", FALSE, <<>>)
    /\ UNCHANGED <<disk, build, procs, nextID, ctree, sess, diffVars, upVars,
                   lockVars>>

DiffIdle ==
    /\ dpc = "idle" /\ ours = <<>> /\ want = <<>> /\ add = <<>> /\ remove = <<>>

\* no upload loop under way
UpIdle ==
    /\ ppc = "idle" /\ nfiles = 0 /\ sent = 0 /\ ret = <<>>
    /\ wg = 0 /\ sendErr = <<>> /\ wk = <<>> /\ hist = <<>>

\* trees the create requests of Spec list: nothing, or one top-level name
ClientTrees == {S \in SrvTrees : PathsOf(S) \subseteq {<<"a">>}}

Init ==
    /\ disk = {}
    /\ ctree \in ClientTrees
    /\ build = <<>> /\ procs = <<>> /\ last = NoEvent
    /\ nextID = 1 /\ sess = <<>>
    /\ DiffIdle /\ UpIdle /\ fwd = 0 /\ LockFree

Next ==
    \/ createBuildHandler
    \/ putFileHandler
    \/ startBuildHandler
    \/ statusHandler
    \/ ProcExit

Spec == Init /\ [][Next]_vars

----------------------------------------------------------------------------
(* Specification SpecServer: the handlers together with end-user traffic, *)
(* for a client whose tree is empty                                        *)

InitServer ==
    /\ disk = {} /\ ctree = {}
    /\ build = <<>> /\ procs = <<>> /\ last = NoEvent
    /\ nextID = 1 /\ sess = <<>>
    /\ DiffIdle /\ UpIdle /\ fwd = 0 /\ LockFree

NextServer == Next \/ proxyHandler \/ proxyDone

SpecServer == InitServer /\ [][NextServer]_vars

----------------------------------------------------------------------------
(* Specification SpecProcs: any sequence of create and start-build         *)
(* requests, with room for a second subprocess                             *)

startAgain ==
    /\ startUpTo(MaxSpawns)
    /\ UNCHANGED <<ctree, sess, diffVars, upVars, fwd, lockVars>>

NextProcs == createBuildHandler \/ startAgain \/ ProcExit

SpecProcs == InitServer /\ [][NextProcs]_vars

----------------------------------------------------------------------------
(* Specification SpecLock: the handlers as they take and release buildMu.  *)
(* A handler that needs the write lock takes it in one step and does its   *)
(* work and releases it in a later one; a put-file takes the read lock in  *)
(* one step and writes and releases in a later one.                        *)

WriteHandlers == {"create", "start", "status"}

\* buildMu.Lock() at the top of createBuildHandler, startBuildHandler and
\* statusHandler
AcquireLock ==
    /\ WLock
    /\ \E h \in WriteHandlers : writer' = h
    /\ UNCHANGED <<srvVars, diffVars, upVars, fwd, readers>>

createUnderLock ==
    /\ writer = "create"
    /\ \E i \in CreateInputs : createStep(i)
    /\ writer' = ""
    /\ UNCHANGED <<ctree, sess, diffVars, upVars, fwd, readers>>

startUnderLock ==
    /\ writer = "start"
    /\ startStep
    /\ writer' = ""
    /\ UNCHANGED <<ctree, sess, diffVars, upVars, fwd, readers>>

statusUnderLock ==
    /\ writer = "status"
    /\ statusStep
    /\ writer' = ""
    /\ UNCHANGED <<ctree, sess, diffVars, upVars, fwd, readers>>

\* uploads of content 1 with its hash, for the live record (for id 1 when
\* there is none) and any file name
LockPuts ==
    {i \in PutInputs :
        /\ i.id = (IF Live THEN build[1].ID ELSE 1)
        /\ i.dest # <<>> /\ i.c = 1 /\ i.hash = SHA1Of(1)}

\* buildMu.RLock() at the top of putFileHandler
putAcquire ==
    /\ RLock
    /\ Cardinality(readers) < MaxPuts
    /\ \E i \in LockPuts \ readers : readers' = readers \cup {i}
    /\ UNCHANGED <<srvVars, diffVars, upVars, fwd, writer>>

putUnderLock ==
    /\ \E i \in readers :
         /\ putStep(i)
         /\ readers' = readers \ {i}
    /\ UNCHANGED <<ctree, sess, diffVars, upVars, fwd, writer>>

NextLock ==
    \/ AcquireLock
    \/ createUnderLock
    \/ startUnderLock
    \/ statusUnderLock
    \/ putAcquire
    \/ putUnderLock
    \/ proxyHandler
    \/ proxyDone
    \/ ProcExit

SpecLock == InitServer /\ [][NextLock]_vars

----------------------------------------------------------------------------
(* Specification SpecDeploy: the create and upload steps of the client's   *)
(* deploy against a working directory of any content.  sess is the deploy  *)
(* under way: the build id of its create response and the files it still   *)
(* has to send.                                                            *)

DiskTrees ==
    SrvTrees \cup {S \cup {DirEntry(Artifact, FALSE, SHA1Of(1))} : S \in SrvTrees}

InitDeploy ==
    /\ disk \in DiskTrees
    /\ ctree \in SrvTrees
    /\ build = <<>> /\ procs = <<>> /\ last = NoEvent
    /\ nextID = 1 /\ sess = <<>>
    /\ DiffIdle /\ UpIdle /\ fwd = 0 /\ LockFree

\* doDeploy's create request and what it keeps of the response
deployCreate ==
    /\ \E i \in CreateInputs : createStep(i)
    /\ sess' = IF last'.err = "none"
               THEN <<[id |-> build'[1].ID,
                       pending |-> NeededUploads(last'.need, ctree)]>>
               ELSE <<>>

DeployCreate ==
    /\ deployCreate
    /\ UNCHANGED <<ctree, diffVars, upVars, fwd, lockVars>>

\* putFile: the hash is taken from the local file; the body may arrive damaged
deployPut ==
    /\ sess # <<>>
    /\ \E p \in sess[1].pending, received \in Contents :
         /\ putStep([id |-> sess[1].id, dest |-> p,
                     hash |-> SHA1Of(ContentOf(ctree, p)), c |-> received])
         /\ sess' = IF last'.err = "none"
                    THEN <<[sess[1] EXCEPT !.pending = @ \ {p}]>>
                    ELSE <<>>

DeployPut ==
    /\ deployPut
    /\ UNCHANGED <<ctree, diffVars, upVars, fwd, lockVars>>

NextDeploy == DeployCreate \/ DeployPut

SpecDeploy == InitDeploy /\ [][NextDeploy]_vars

----------------------------------------------------------------------------
(* Specification SpecClient: doDeploy from its create request to its       *)
(* return, one deploy after another.  ret is what the last doDeploy        *)
(* returned: <<0>> for nil, <<1>> for an error, <<>> while one is under    *)
(* way.  The uploads are taken one at a time; SpecUpload has the workers.  *)

Nil == <<0>>
Failed == <<1>>

clientVars == <<ppc, nfiles, sent, wg, sendErr, wk, hist>>

\* doReq: an error unless the response came and carries no error
doReqErr(ev) == ev.err # "none"

ClientCreate ==
    /\ sess = <<>>
    /\ deployCreate
    /\ ret' = IF doReqErr(last') THEN Failed ELSE <<>>
    /\ UNCHANGED <<ctree, diffVars, clientVars, fwd, lockVars>>

ClientPut ==
    /\ deployPut
    /\ ret' = IF doReqErr(last') THEN Failed ELSE <<>>
    /\ UNCHANGED <<ctree, diffVars, clientVars, fwd, lockVars>>

\* the start-build request: its error is logged and nil is returned
ClientStart ==
    /\ sess # <<>> /\ sess[1].pending = {}
    /\ startStep
    /\ sess' = <<>>
    /\ ret' = Nil
    /\ UNCHANGED <<ctree, diffVars, clientVars, fwd, lockVars>>

NextClient == ClientCreate \/ ClientPut \/ ClientStart

SpecClient == InitDeploy /\ [][NextClient]_vars

----------------------------------------------------------------------------
(* Specification SpecBuild: the methods of one build record, called in any *)
(* order                                                                   *)

InitBuild ==
    /\ disk = {} /\ ctree = {}
    /\ build = <<NewBuild(1, ListDir({}))>>
    /\ procs = <<>> /\ last = NoEvent
    /\ nextID = 2 /\ sess = <<>>
    /\ DiffIdle /\ UpIdle /\ fwd = 0 /\ LockFree

CallGoBuild ==
    /\ \E compiles \in BOOLEAN :
         LET g == GoBuild(build[1], compiles)
         IN /\ build' = <<g.b>>
            /\ disk' = IF compiles THEN WriteArtifact(disk) ELSE disk
            /\ last' = Event("GoBuild", g.err, FALSE, <<>>)
    /\ UNCHANGED <<procs, nextID, ctree, sess, diffVars, upVars, fwd, lockVars>>

CallStart ==
    /\ \E listens, launches \in BOOLEAN :
         LET s == Start(build[1], procs, listens, launches)
         IN /\ Len(s.procs) <= MaxProcs
            /\ build' = <<s.b>>
            /\ procs' = s.procs
            /\ last' = Event("Start", s.err, FALSE, <<>>)
    /\ UNCHANGED <<disk, nextID, ctree, sess, diffVars, upVars, fwd, lockVars>>

CallStop ==
    /\ \E killed \in BOOLEAN :
         LET s == Stop(build[1], procs, killed)
         IN /\ build' = <<s.b>>
            /\ procs' = s.procs
            /\ last' = Event("Stop", s.err, s.kill, <<>>)
    /\ UNCHANGED <<disk, nextID, ctree, sess, diffVars, upVars, fwd, lockVars>>

NextBuild == CallGoBuild \/ CallStart \/ CallStop \/ ProcExit

SpecBuild == InitBuild /\ [][NextBuild]_vars

----------------------------------------------------------------------------
(* Specification SpecDiff: one call ours.Diff(want) on listed snapshots *)

SrvIdle ==
    /\ disk = {} /\ build = <<>> /\ procs = <<>> /\ last = NoEvent
    /\ nextID = 1 /\ ctree = {} /\ sess = <<>>
    /\ fwd = 0 /\ LockFree

InitDiff ==
    /\ dpc = "call"
    /\ ours \in DiffInputs
    /\ want \in DiffInputs
    /\ add = <<>> /\ remove = <<>>
    /\ SrvIdle /\ UpIdle

CallDiff ==
    /\ dpc = "call"
    /\ LET d == Diff(ours, want)
       IN /\ add' = d.add
          /\ remove' = d.remove
          \* sort.Sort reorders the caller's slices in place
          /\ ours' = Sort(ours)
          /\ want' = Sort(want)
    /\ dpc' = "done"
    /\ UNCHANGED <<srvVars, upVars, fwd, lockVars>>

NextDiff == CallDiff

SpecDiff == InitDiff /\ [][NextDiff]_vars

----------------------------------------------------------------------------
(* Specification SpecUpload: the upload loop of doDeploy (cmd/flexdev).    *)
(* The files to send are numbered 1..nfiles in the order the producer      *)
(* finds them, and they exist for the whole deploy.  sendFile is           *)
(* unbuffered: a send and a receive happen together.  hist records, for    *)
(* the properties, what was done to each file.                             *)

Files == 1..nfiles
Workers == 1..NumWorkers

\* the loop over resp.NeedFiles goes on to the next file or to wg.Wait()
AfterSend(n) == IF n = nfiles THEN "wait" ELSE "add"

InitUpload ==
    /\ nfiles \in 0..MaxUploads
    /\ ppc = AfterSend(0)
    /\ sent = 0 /\ ret = <<>>
    /\ wg = 0 /\ sendErr = <<>>
    /\ wk = [w \in Workers |-> [pc |-> "check", skip |-> FALSE, path |-> 0]]
    /\ hist = [adds |-> 0, late |-> {}, first |-> <<>>,
               tries |-> [f \in Files |-> 0], dones |-> [f \in Files |-> 0]]
    /\ SrvIdle /\ DiffIdle

\* wg.Add(1)
ProducerAdd ==
    /\ ppc = "add"
    /\ wg' = wg + 1
    /\ hist' = [hist EXCEPT
                   !.adds = @ + 1,
                   !.late = IF sendErr # <<>> THEN @ \cup {sent + 1} ELSE @]
    /\ ppc' = "send"
    /\ UNCHANGED <<nfiles, sent, ret, sendErr, wk, srvVars, diffVars, fwd, lockVars>>

\* the worker's reading of sendErr under errMu at the top of its loop
WorkerCheck(w) ==
    /\ wk[w].pc = "check"
    /\ wk' = [wk EXCEPT ![w].skip = (sendErr # <<>>), ![w].pc = "recv"]
    /\ UNCHANGED <<ppc, nfiles, sent, ret, wg, sendErr, hist, srvVars, diffVars, fwd, lockVars>>

\* sendFile <- destFile meets path := <-sendFile of worker w
Handover(w) ==
    /\ ppc = "send"
    /\ wk[w].pc = "recv"
    /\ sent' = sent + 1
    /\ ppc' = AfterSend(sent')
    /\ wk' = [wk EXCEPT ![w].path = sent',
                        ![w].pc = IF wk[w].skip THEN "skip" ELSE "put"]
    /\ UNCHANGED <<nfiles, ret, wg, sendErr, hist, srvVars, diffVars, fwd, lockVars>>

WorkerSkip_NoDone(w) ==
    /\ wk[w].pc = "skip"
    /\ wk' = [wk EXCEPT ![w].pc = "check"]
    /\ UNCHANGED <<wg, hist>>
    /\ UNCHANGED <<ppc, nfiles, sent, ret, sendErr, srvVars, diffVars, fwd, lockVars>>

\* if skip { wg.Done(); continue }
WorkerSkip(w) ==
    /\ wk[w].pc = "skip"
    /\ wg' = wg - 1
    /\ hist' = [hist EXCEPT !.dones[wk[w].path] = @ + 1]
    /\ wk' = [wk EXCEPT ![w].pc = "check"]
    /\ UNCHANGED <<ppc, nfiles, sent, ret, sendErr, srvVars, diffVars, fwd, lockVars>>

\* putFile returns, with or without an error
WorkerPut(w) ==
    /\ wk[w].pc = "put"
    /\ \E ok \in BOOLEAN :
         /\ wk' = [wk EXCEPT ![w].pc = IF ok THEN "done" ELSE "record"]
         /\ hist' = [hist EXCEPT
                        !.tries[wk[w].path] = @ + 1,
                        !.first = IF ~ok /\ @ = <<>> THEN <<wk[w].path>> ELSE @]
    /\ UNCHANGED <<ppc, nfiles, sent, ret, wg, sendErr, srvVars, diffVars, fwd, lockVars>>

\* sendErr = fmt.Errorf("Could not send %s: %v", path, err) under errMu
WorkerRecord(w) ==
    /\ wk[w].pc = "record"
    /\ sendErr' = <<wk[w].path>>
    /\ wk' = [wk EXCEPT ![w].pc = "done"]
    /\ UNCHANGED <<ppc, nfiles, sent, ret, wg, hist, srvVars, diffVars, fwd, lockVars>>

\* wg.Done() at the end of the loop body
WorkerDone(w) ==
    /\ wk[w].pc = "done"
    /\ wg' = wg - 1
    /\ hist' = [hist EXCEPT !.dones[wk[w].path] = @ + 1]
    /\ wk' = [wk EXCEPT ![w].pc = "check"]
    /\ UNCHANGED <<ppc, nfiles, sent, ret, sendErr, srvVars, diffVars, fwd, lockVars>>

\* wg.Wait() returns and doDeploy returns sendErr, or goes on (ret = <<0>>)
ProducerWait ==
    /\ ppc = "wait"
    /\ wg = 0
    /\ ret' = IF sendErr # <<>> THEN sendErr ELSE <<0>>
    /\ ppc' = "done"
    /\ UNCHANGED <<nfiles, sent, wg, sendErr, wk, hist, srvVars, diffVars, fwd, lockVars>>

WorkerStep(w) ==
    \/ WorkerCheck(w)
    \/ WorkerSkip(w)
    \/ WorkerPut(w)
    \/ WorkerRecord(w)
    \/ WorkerDone(w)

NextUpload ==
    \/ ProducerAdd
    \/ ProducerWait
    \/ \E w \in Workers : Handover(w)
    \/ \E w \in Workers : WorkerStep(w)

SpecUpload == InitUpload /\ [][NextUpload]_vars

\* every goroutine that can run does run, and a send that some worker is
\* waiting for takes place
FairUpload ==
    /\ WF_vars(ProducerAdd)
    /\ WF_vars(ProducerWait)
    /\ WF_vars(\E w \in Workers : Handover(w))
    /\ \A w \in Workers : WF_vars(WorkerStep(w))

SpecUploadFair == SpecUpload /\ FairUpload

----------------------------------------------------------------------------
(* Properties of Diff *)

Have == Range(ours)
Want == Range(want)
Add  == Range(add)
Rem  == Range(remove)

Covers(l, p) == \E x \in l : x.Path = p \/ Beneath(p, x.Path)

\* have after deleting remove (with descendants) and installing add (with
\* its descendants in want); an installed entry replaces one of equal path
Installed == {e \in Want : Covers(Add, e.Path)}
Kept == {e \in Have : ~Covers(Rem, e.Path)}
Transformed == Installed \cup {e \in Kept : e.Path \notin PathsOf(Installed)}

\* C1: applying remove and then add to have yields exactly want
C1_DiffTransforms == dpc = "done" => Transformed = Want

\* C2: Diff of a snapshot with itself, in any two input orders, has an empty
\* add list and an empty remove list
C2_DiffSelfEmpty ==
    (dpc = "done" /\ Have = Want) => (add = <<>> /\ remove = <<>>)

C2_Witness ==
    /\ dpc = "done" /\ Have = Want /\ Len(ours) = 3
    /\ \E d, f \in Have : d.IsDir /\ ~f.IsDir /\ Beneath(f.Path, d.Path)
    /\ add = <<>> /\ remove = <<>>

Extends == Have \subseteq Want /\ Have # Want

Collapsed(l, e) ==
    \E d \in l : d.IsDir /\ d.Path # e.Path /\ HasPrefix(e.Path, d.Path)

C4_TypeSwapInBoth ==
    dpc = "done" =>
        \A o \in Have, w \in Want :
            (o.Path = w.Path /\ o.IsDir # w.IsDir) => (o \in Rem /\ w \in Add)

\* C5: a path listed in both as a file with different hashes has its want
\* entry in add and no entry of that path in remove
C5_HashMismatchAdds ==
    dpc = "done" =>
        \A o \in Have, w \in Want :
            (o.Path = w.Path /\ ~o.IsDir /\ ~w.IsDir /\ o.SHA1 # w.SHA1) =>
                (w \in Add /\ o.Path \notin PathsOf(Rem))

NoNesting(l) == \A d, e \in l : d.IsDir => ~Beneath(e.Path, d.Path)

\* a directory of have with nothing at or beneath it in want, whose own
\* parent directory stays a directory in want
AbsentSubtree(d) ==
    /\ d.IsDir
    /\ \A w \in Want : w.Path # d.Path /\ ~Beneath(w.Path, d.Path)
    /\ \/ Dir(d.Path) = <<>>
       \/ \E w \in Want : w.Path = Dir(d.Path) /\ w.IsDir

\* C6: no entry of add (of remove) lies beneath a directory entry of the same
\* list, and a directory subtree absent from want contributes exactly one
\* entry to remove, the directory itself
C6_Collapsing ==
    dpc = "done" =>
        /\ NoNesting(Add)
        /\ NoNesting(Rem)
        /\ \A d \in Have : AbsentSubtree(d) =>
              {r \in Rem : r.Path = d.Path \/ Beneath(r.Path, d.Path)} = {d}

----------------------------------------------------------------------------
(* Properties of the deploy and of the build lifecycle *)

\* C7: once a deploy's create has succeeded and every file it owed has been
\* uploaded, the next successful create for the same tree needs no file and
\* removes nothing
C7_SecondCreateNeedsNothing ==
    [][(/\ sess # <<>>
        /\ sess[1].pending = {}
        /\ last'.op = "create"
        /\ last'.err = "none"
        /\ nextID' = nextID + 1)
       => (last'.need = <<>> /\ disk' = disk)]_vars

\* C8: Stop on a record that is not running returns an error, sends no kill
\* and leaves the state as it was
C8_StopOnlyFromRunning ==
    [][(last'.op = "Stop" /\ build[1].State # "running")
       => (/\ last'.err # "none"
           /\ ~last'.kill
           /\ procs' = procs
           /\ build'[1].State = build[1].State)]_vars

C8_Witness ==
    /\ last.op = "Stop" /\ last.err = "not running" /\ ~last.kill
    /\ build[1].State = "stopped"
    /\ \E pid \in 1..Len(procs) : procs[pid] = "killed"

\* C9: a start-build whose compile fails on a created record leaves it
\* created, and the record leaves created only when the compile succeeded
C9_FailedCompileStaysCreated ==
    [][(Live /\ build[1].State = "created" /\ last'.op = "start")
       => (/\ last'.err = "compile" => build'[1].State = "created"
           /\ build'[1].State # "created" => last'.err # "compile")]_vars

Listed ==
    { <<"created", "built">>, <<"built", "running">>, <<"running", "stopped">> }

\* what one request may do by listed transitions taken in a row
ListedPaths ==
    Listed \cup { <<"created", "running">>, <<"created", "stopped">>,
                  <<"built", "stopped">> }

\* C10: a record's state changes only along the listed transitions
C10_OnlyListedTransitions ==
    [][(/\ Live
        /\ build' # <<>>
        /\ build'[1].ID = build[1].ID
        /\ build'[1].State # build[1].State)
       => <<build[1].State, build'[1].State>> \in ListedPaths]_vars

\* C11: a start-build spawns a process only when its own compile succeeded,
\* and one whose compile fails leaves the process table, the command and
\* the address as they were and answers with the error and the record's log
C11_StartOnlyAfterCompile ==
    [][(Live /\ last'.op = "start")
       => /\ procs' # procs =>
                /\ last'.err = "none"
                /\ IsFile(disk', Artifact)
                /\ build'[1].State = "running"
          /\ last'.err = "compile" =>
                /\ procs' = procs
                /\ build'[1].cmd = build[1].cmd
                /\ build'[1].addr = build[1].addr
                /\ build'[1].State # "running"
                /\ last'.msg = "log"
                /\ last'.log = build'[1].output
                /\ "compile" \in last'.log]_vars

\* a failed compile on a record whose earlier start-build spawned a process
C11_Witness ==
    /\ Live /\ last.op = "start" /\ last.err = "compile"
    /\ last.log = build[1].output /\ "compile" \in last.log
    /\ build[1].cmd # <<>> /\ build[1].cmd # <<0>>
    /\ Len(procs) = 1

\* the record's command has a started process
HasProcess(b) == b.cmd # <<>> /\ b.cmd # <<0>> /\ b.cmd[1] \in 1..Len(procs)

\* C12: a start-build whose port allocation or launch fails returns the
\* error and leaves the record not running, and a running live record
\* always has a process handle and a listen address
C12_RunningOnlyAfterLaunch ==
    /\ [](Running => (HasProcess(build[1]) /\ build[1].addr # ""))
    /\ [][(Live /\ last'.op = "start" /\ last'.err \in {"listen", "launch"})
          => (build'[1].State # "running" /\ procs' = procs)]_vars

\* a launch that fails on a record that was running before the request
C12_Witness ==
    /\ Live /\ last.op = "start" /\ last.err = "launch"
    /\ build[1].State = "built" /\ build[1].cmd = <<0>>
    /\ Len(procs) = 1

\* the process of the live running record has exited on its own
Exited == Running /\ HasProcess(build[1]) /\ procs[build[1].cmd[1]] = "exited"

\* C13: a status query on a running record whose process has exited leaves
\* the record stopped
C13_StatusDetectsExit ==
    [][(Exited /\ last'.op = "status") => build'[1].State = "stopped"]_vars

\* C14: a request is forwarded only when the live record is running and is
\* otherwise answered with a 503 (quoting the state and the log of the
\* record, when there is one); while a request is being forwarded the live
\* record is not replaced and stays running
C14_ForwardOnlyWhileRunning ==
    [][/\ (last'.op = "proxy" /\ fwd' > fwd) => Running
       /\ (last'.op = "proxy" /\ ~Running) =>
             /\ fwd' = fwd
             /\ last'.err = "unavailable"
             /\ Live => (/\ last'.msg = build[1].State
                         /\ last'.log = build[1].output)
       /\ fwd > 0 =>
             /\ Running
             /\ build' # <<>>
             /\ build'[1].ID = build[1].ID
             /\ build'[1].State = "running"]_vars

\* a request is being forwarded, the process has gone and an upload has
\* been served meanwhile
C14_Witness ==
    /\ fwd > 0 /\ Running /\ last.op = "put"
    /\ procs[build[1].cmd[1]] = "exited"

\* the request carries the id of the live record
IDMatches(i) == Live /\ i.id = build[1].ID

\* what putFileHandler does with request i in the current state
PutResult(i) == putOutcome(i.id, i.dest, i.hash, i.c)

\* C15: in every state, a put-file that writes carries the id of the live
\* record, and one that carries another id (that of a replaced record
\* included) returns an error and leaves the working directory as it is
C15_PutNeedsLiveID ==
    \A i \in PutInputs :
        LET o == PutResult(i)
        IN /\ (o.disk # disk \/ o.last.err \in {"none", "mkdir", "write"})
                 => IDMatches(i)
           /\ (Live /\ ~IDMatches(i)) => (o.last.err # "none" /\ o.disk = disk)

\* an upload for the first record is refused after a second create, with
\* files of the first deploy on disk
C15_Witness ==
    /\ last.op = "put" /\ last.err = "id mismatch"
    /\ Live /\ build[1].ID = 2
    /\ disk # {}

\* C16: in every state, a put-file that passes the checks of its form
\* values and whose received bytes do not hash to the declared sha1 answers
\* with the checksum error and leaves the working directory as it is
C16_ChecksumMismatchRejected ==
    \A i \in PutInputs :
        (IDMatches(i) /\ i.dest # <<>> /\ i.hash # NoSHA /\ SHA1Of(i.c) # i.hash)
        => (PutResult(i).last.err = "sum" /\ PutResult(i).disk = disk)

\* a damaged upload for a file that is on disk with other content
C16_Witness ==
    /\ last.op = "put" /\ last.err = "sum"
    /\ Live /\ \E e \in disk : ~e.IsDir /\ e.SHA1 = SHA1Of(2)

\* C17: a create that finds the live record running either fails with the
\* stop error, leaving the record, the ids, the processes and the working
\* directory as they were, or has killed the record's process; the record it
\* then leaves behind is a new one or the old one stopped
C17_CreateStopsRunningFirst ==
    [][(Running /\ HasProcess(build[1]) /\ last'.op = "create")
       => /\ last'.err = "stop" =>
                /\ build' = build
                /\ nextID' = nextID
                /\ disk' = disk
                /\ procs' = procs
          /\ last'.err # "stop" =>
                /\ last'.kill
                /\ procs'[build[1].cmd[1]] = "killed"
                /\ \/ build'[1].ID # build[1].ID
                   \/ build'[1].State = "stopped"]_vars

\* a create was refused because the kill failed, with the running build's
\* a.out on disk, which the empty client tree would have had removed
C17_Witness ==
    /\ last.op = "create" /\ last.err = "stop" /\ last.kill
    /\ Running /\ IsFile(disk, Artifact)
    /\ nextID = 2

----------------------------------------------------------------------------
(* Properties of the upload loop *)

Tried == {f \in Files : hist.tries[f] > 0}

\* C18: no file that the producer began to enqueue (wg.Add, then the send)
\* after an error was recorded in sendErr is transferred
C18_NoTransferAfterError == hist.late \cap Tried = {}

\* C19: when transfers have failed the loop returns the error of the first
\* one that failed, and no file is transferred twice
C19_FirstErrorReturned ==
    /\ \A f \in Files : hist.tries[f] <= 1
    /\ (ppc = "done" /\ hist.first # <<>>) => ret = hist.first

Finished == {f \in Files : hist.dones[f] > 0}

\* one Add per file enqueued or being sent, at most one Done per file, the
\* counter their difference; when Wait has returned every file was
\* enqueued and a worker has finished with it, by a transfer or by a skip
Accounting ==
    /\ wg >= 0
    /\ hist.adds = sent + (IF ppc = "send" THEN 1 ELSE 0)
    /\ \A f \in Files : hist.dones[f] <= 1 /\ hist.tries[f] <= 1
    /\ wg = hist.adds - Cardinality(Finished)
    /\ ppc = "done" =>
          /\ sent = nfiles /\ hist.adds = nfiles
          /\ Finished = Files
          /\ \A w \in Workers : wk[w].pc \in {"check", "recv"}

\* C20: the upload loop always gets to the return of wg.Wait(), and the
\* counter and the files are accounted for all along
C20_NoDeadlock == <>(ppc = "done") /\ []Accounting

\* the loop has ended with an error, one file transferred and one skipped
C20_Witness ==
    /\ ppc = "done" /\ nfiles = MaxUploads /\ ret # <<0>>
    /\ \E f, g \in Files : hist.tries[f] = 1 /\ hist.tries[g] = 0
    /\ Finished = Files /\ wg = 0

----------------------------------------------------------------------------
(* Properties of the coordinator and of the whole deploy *)

\* C21: a put-file or start-build that finds no live record is answered with
\* an error response and changes neither the slot, the processes nor the
\* working directory
C21_NoRecordIsReported ==
    [][(~Live /\ last'.op \in {"put", "start"})
       => /\ last'.err \notin {"none", "panic"}
          /\ build' = build /\ procs' = procs /\ disk' = disk
          /\ nextID' = nextID]_vars

\* C22: while create, start-build or status holds buildMu no put-file and
\* no forwarding is in progress; a put-file or a forwarding begins and ends
\* only when no such handler holds it; the slot changes only under it
C22_WritersExclusive ==
    /\ [](writer # "" => (readers = {} /\ fwd = 0))
    /\ [][/\ (readers' # readers \/ fwd' # fwd) => (writer = "" /\ writer' = "")
          /\ (build' # build \/ nextID' # nextID) =>
                (writer \in {"create", "start"} /\ readers = {} /\ fwd = 0)]_vars

\* two put-files for different paths are in progress, and a forwarding too
C22_Witness ==
    /\ Live /\ fwd > 0 /\ writer = ""
    /\ \E i, j \in readers : i.dest # j.dest /\ i.id = build[1].ID /\ j.id = i.id

Alive == {pid \in 1..Len(procs) : procs[pid] = "alive"}

\* the live record is replaced by one with another id
Replaced == Live /\ build' # <<>> /\ build'[1].ID # build[1].ID

\* C23: at most one subprocess is alive, and when a process is spawned or
\* the live record is replaced no process spawned earlier is alive
C23_AtMostOneAlive ==
    /\ [](Cardinality(Alive) <= 1)
    /\ [][(Len(procs') > Len(procs) \/ Replaced)
          => \A pid \in 1..Len(procs) : procs'[pid] # "alive"]_vars

\* the error answers createBuildHandler gives for the content of a request
ContentErrors == {"decode", "missing config", "missing dir list", "yaml"}

\* C24: a create request rejected for its content leaves the build slot
\* unchanged: no process is stopped, the record keeps its id and state, no
\* record is allocated and no file is deleted
C24_RejectedCreateChangesNothing ==
    [][(last'.op = "create" /\ last'.err \in ContentErrors)
       => /\ build' = build /\ procs' = procs
          /\ disk' = disk /\ nextID' = nextID]_vars

\* C25: doDeploy returns an error whenever its create, an upload or its
\* start-build request failed, and returns nil only when the start-build
\* request, sent after every upload was done, succeeded
C25_SuccessOnlyIfAllSucceeded ==
    [][/\ doReqErr(last') => ret' = Failed
       /\ ret' = Nil => /\ last'.op = "start" /\ ~doReqErr(last')
                        /\ sess # <<>> /\ sess[1].pending = {}]_vars

====
